---- MODULE Spec2Model ----
(***************************************************************************)
(* TrustBridge (src/trustbridge_app.py): the in-memory user store, the     *)
(* per-user transaction ledger, the trust-score engine, the receipt amount *)
(* extractor and the Streamlit session state machine that drives them.     *)
(*                                                                         *)
(* Conventions                                                             *)
(*   - a Python dict is a function whose DOMAIN is the set of its keys;    *)
(*   - a Python list is a sequence, index 1 being Python's index 0;        *)
(*   - an optional value is <<>> (None) or <<v>>;                          *)
(*   - a text is a sequence of one-character strings;                      *)
(*   - money is an integer number of hundredths (45.50 is 4550);           *)
(*   - a datetime is [day, time]: the calendar date and the time of day.   *)
(***************************************************************************)
EXTENDS Integers, Sequences, FiniteSets, TLC

VARIABLES
    authenticated,    \* st.session_state.authenticated
    current_user,     \* st.session_state.current_user, <<>> is None
    page,             \* st.session_state.page
    users_db,         \* st.session_state.users_db
    transactions_db,  \* st.session_state.transactions_db
    last,             \* what the last handler run did: [op, status]
    pc,               \* position of each concurrent save_transaction call
    local,            \* arguments and locals of each concurrent call
    workload          \* the scripted input of the scoring / tier harnesses

vars == <<authenticated, current_user, page, users_db, transactions_db,
          last, pc, local, workload>>

----------------------------------------------------------------------------
(* Bounds of the model *)

\* Transactions the session machine stores, over all ledgers.
MaxTx == 2
\* Transactions the direct-call harness stores, over all ledgers.
MaxCalls == 2
\* Length of the ledgers built by the scoring harness.
MaxLen == 72
\* Largest score handed to get_score_tier by the tier harness.
MaxScoreProbe == 900

----------------------------------------------------------------------------
(* Input samples *)

Emails == {"a@x.io", "b@x.io"}
Names == {"Ann", "Bob"}
Passwords == {"short", "longpassword"}
Plans == {"free"}
Types == {"Income", "Expense"}
Categories == {"Salary"}
Days == {1, 2}
FormDays == {1}
FormTimes == {0}
ManualAmounts == {100}
CallAmounts == {0, 100}
Threads == {1, 2}

None == <<>>
Some(v) == <<v>>

Pages == {"Dashboard", "Transactions", "Opportunities", "Financial Report",
          "Verification History", "Profile", "Help"}

----------------------------------------------------------------------------
(* Dictionaries *)

EmptyDict == [k \in {} |-> 0]

Put(d, k, v) == [x \in (DOMAIN d) \cup {k} |-> IF x = k THEN v ELSE d[x]]

\* hashlib.sha256(password.encode()).hexdigest(), taken to be collision free
Sha256(password) == <<"sha256", password>>

----------------------------------------------------------------------------
(* calculate_trust_score *)

BaseScore == 300
VerifiedPoints == 5
TransactionPoints == 1
DayPoints == 2
StreakDays == 30
StreakBonus == 20
CashFlowBonus == 15
IncomeBonus == 10
ScoreCap == 850

get_user_transactions(tdb, email) ==
    IF email \in DOMAIN tdb THEN tdb[email] ELSE <<>>

\* the time of day is kept
DateStrWithTime(date) == date

\* t['date'].strftime('%Y-%m-%d'): the calendar date, the time of day dropped
DateStr(date) == date.day

\* only the verified transactions at the head of the list are counted
RECURSIVE CountVerifiedLeading(_)
CountVerifiedLeading(transactions) ==
    IF transactions = <<>> \/ ~Head(transactions).verified THEN 0
    ELSE 1 + CountVerifiedLeading(Tail(transactions))

\* sum(1 for t in transactions if t.get('verified', False))
RECURSIVE CountVerified(_)
CountVerified(transactions) ==
    IF transactions = <<>> THEN 0
    ELSE (IF Head(transactions).verified THEN 1 ELSE 0)
         + CountVerified(Tail(transactions))

\* sum(t['amount'] for t in transactions if t['type'] == type)
RECURSIVE SumAmount(_, _)
SumAmount(transactions, type) ==
    IF transactions = <<>> THEN 0
    ELSE (IF Head(transactions).type = type THEN Head(transactions).amount ELSE 0)
         + SumAmount(Tail(transactions), type)

\* the set transaction_dates after the loop of lines 99-102
RECURSIVE TransactionDates(_)
TransactionDates(transactions) ==
    IF transactions = <<>> THEN {}
    ELSE {DateStr(Head(transactions).date)}
         \cup TransactionDates(Tail(transactions))

\* no cap
MinUncapped(a, b) == a

Min(a, b) == IF a < b THEN a ELSE b

\* the income bonus asks for the newest transaction to be an Income
ScoreOfLedgerRecentIncome(transactions) ==
    IF transactions = <<>> THEN BaseScore
    ELSE Min(BaseScore
             + CountVerified(transactions) * VerifiedPoints
             + Len(transactions) * TransactionPoints
             + Cardinality(TransactionDates(transactions)) * DayPoints
             + (IF Cardinality(TransactionDates(transactions)) >= StreakDays
                THEN StreakBonus ELSE 0)
             + (IF SumAmount(transactions, "Income")
                     > SumAmount(transactions, "Expense")
                THEN CashFlowBonus ELSE 0)
             + (IF Head(transactions).type = "Income" THEN IncomeBonus ELSE 0),
             ScoreCap)

ScoreOfLedger(transactions) ==
    IF transactions = <<>> THEN BaseScore
    ELSE
      LET verified_count == CountVerified(transactions)
          consistency_days == Cardinality(TransactionDates(transactions))
          total_income == SumAmount(transactions, "Income")
          total_expense == SumAmount(transactions, "Expense")
          recent_income == SelectSeq(transactions, LAMBDA t : t.type = "Income")
          score == BaseScore
                   + verified_count * VerifiedPoints
                   + Len(transactions) * TransactionPoints
                   + consistency_days * DayPoints
                   + (IF consistency_days >= StreakDays THEN StreakBonus ELSE 0)
                   + (IF total_income > total_expense THEN CashFlowBonus ELSE 0)
                   + (IF recent_income # <<>> THEN IncomeBonus ELSE 0)
      IN Min(score, ScoreCap)

calculate_trust_score(tdb, email) ==
    ScoreOfLedger(get_user_transactions(tdb, email))

----------------------------------------------------------------------------
(* get_score_tier *)

\* the buckets start one above their thresholds
get_score_tier_strict(score) ==
    IF score > 750 THEN <<"Excellent", "#4CAF50", "LEVEL 5">>
    ELSE IF score > 650 THEN <<"Good", "#2196F3", "LEVEL 4">>
    ELSE IF score > 500 THEN <<"Building", "#FF9800", "LEVEL 3">>
    ELSE IF score > 400 THEN <<"Fair", "#FFC107", "LEVEL 2">>
    ELSE <<"Starting", "#9E9E9E", "LEVEL 1">>

get_score_tier(score) ==
    IF score >= 750 THEN <<"Excellent", "#4CAF50", "LEVEL 5">>
    ELSE IF score >= 650 THEN <<"Good", "#2196F3", "LEVEL 4">>
    ELSE IF score >= 500 THEN <<"Building", "#FF9800", "LEVEL 3">>
    ELSE IF score >= 400 THEN <<"Fair", "#FFC107", "LEVEL 2">>
    ELSE <<"Starting", "#9E9E9E", "LEVEL 1">>

----------------------------------------------------------------------------
(* extract_amount_from_text *)

DigitChars == {"0", "1", "2", "3", "4", "5", "6", "7", "8", "9"}
\* \s
SpaceChars == {" ", "\n", "\t"}
\* [₦$£€]; the naira, pound and euro signs are written by name
SymbolChars == {"naira", "$", "pound", "euro"}
\* [,.]
SeparatorChars == {",", "."}

\* (?:TOTAL|Total|total|AMOUNT|Amount|amount), in the order of the alternation
Labels == << <<"T","O","T","A","L">>, <<"T","o","t","a","l">>,
             <<"t","o","t","a","l">>, <<"A","M","O","U","N","T">>,
             <<"A","m","o","u","n","t">>, <<"a","m","o","u","n","t">> >>
\* (?:NGN|USD|GBP|EUR)
Codes == << <<"N","G","N">>, <<"U","S","D">>, <<"G","B","P">>, <<"E","U","R">> >>

\* the word stands in the text at position i
WordAt(text, i, word) ==
    /\ i + Len(word) - 1 <= Len(text)
    /\ \A k \in 1..Len(word) : text[i + k - 1] = word[k]

AnyWordAt(text, i, words) == \E w \in 1..Len(words) : WordAt(text, i, words[w])

\* the position after the first alternative of words that stands at i
AfterWord(text, i, words) ==
    LET w == CHOOSE w \in 1..Len(words) :
                 /\ WordAt(text, i, words[w])
                 /\ \A v \in 1..(w - 1) : ~WordAt(text, i, words[v])
    IN i + Len(words[w])

\* the position after the longest run of characters of chars from i on (X*)
RECURSIVE SkipRun(_, _, _)
SkipRun(text, i, chars) ==
    IF i <= Len(text) /\ text[i] \in chars
    THEN SkipRun(text, i + 1, chars) ELSE i

\* the position after an optional character of chars at i (X?)
SkipOne(text, i, chars) ==
    IF i <= Len(text) /\ text[i] \in chars THEN i + 1 ELSE i

DigitRun(text, i) == SkipRun(text, i, DigitChars) - i

\* The ways (\d+[,.]?\d*\.?\d+) matches from position j on: <<a, s, b, p, c>>
\* are the lengths taken by \d+, [,.]?, \d*, \.? and \d+.
NumberParses(text, j) ==
    UNION { UNION { UNION { UNION {
        { <<a, s, b, p, c>> : c \in 1..DigitRun(text, j + a + s + b + p) }
        : p \in { p \in {0, 1} :
                    p = 1 => /\ j + a + s + b <= Len(text)
                             /\ text[j + a + s + b] = "." } }
        : b \in 0..DigitRun(text, j + a + s) }
        : s \in { s \in {0, 1} :
                    s = 1 => /\ j + a <= Len(text)
                             /\ text[j + a] \in SeparatorChars } }
        : a \in 1..DigitRun(text, j) }

ParseEnd(j, t) == j + t[1] + t[2] + t[3] + t[4] + t[5]

\* the backtracking order of a greedy match: every quantifier takes the most
\* it can, an earlier quantifier giving way only once the later ones fail
RECURSIVE TriedBefore(_, _, _)
TriedBefore(t, u, k) ==
    IF k > 5 THEN FALSE
    ELSE IF t[k] # u[k] THEN t[k] > u[k]
    ELSE TriedBefore(t, u, k + 1)

FirstParse(parses) ==
    CHOOSE t \in parses : \A u \in parses \ {t} : TriedBefore(t, u, 1)

SubText(text, from, to) == [k \in 1..(to - from) |-> text[from + k - 1]]

\* group(1) of the match whose number starts at j and is parsed as t
Group(text, j, t) == SubText(text, j, ParseEnd(j, t))

\* pattern 1: label [\s:]* [symbol]? \s* (number), attempted at position i.
\* The number can only start at the first character that the prefix cannot
\* take, so giving characters back in the prefix finds no other match.
NumberStart1(text, i) ==
    SkipRun(text,
            SkipOne(text,
                    SkipRun(text, AfterWord(text, i, Labels),
                            SpaceChars \cup {":"}),
                    SymbolChars),
            SpaceChars)

Matches1(text, i) ==
    /\ AnyWordAt(text, i, Labels)
    /\ NumberParses(text, NumberStart1(text, i)) # {}

\* pattern 2: [symbol] \s* (number)
NumberStart2(text, i) == SkipRun(text, i + 1, SpaceChars)

Matches2(text, i) ==
    /\ text[i] \in SymbolChars
    /\ NumberParses(text, NumberStart2(text, i)) # {}

\* pattern 3: (number) \s* code; the number gives way until the code follows
Parses3(text, i) ==
    { t \in NumberParses(text, i) :
        AnyWordAt(text, SkipRun(text, ParseEnd(i, t), SpaceChars), Codes) }

Matches3(text, i) == Parses3(text, i) # {}

\* re.search(pattern, text).group(1): the match at the leftmost position
\* where the pattern matches, None when there is none
Search(text, pattern) ==
    LET Matches(i) == IF pattern = 1 THEN Matches1(text, i)
                      ELSE IF pattern = 2 THEN Matches2(text, i)
                      ELSE Matches3(text, i)
        hits == { i \in 1..Len(text) : Matches(i) }
    IN IF hits = {} THEN None
       ELSE LET i == CHOOSE i \in hits : \A h \in hits : i <= h
            IN IF pattern = 1
               THEN Some(Group(text, NumberStart1(text, i),
                               FirstParse(NumberParses(text, NumberStart1(text, i)))))
               ELSE IF pattern = 2
               THEN Some(Group(text, NumberStart2(text, i),
                               FirstParse(NumberParses(text, NumberStart2(text, i)))))
               ELSE Some(Group(text, i, FirstParse(Parses3(text, i))))

\* match.group(1).replace(',', '')
RemoveCommas(s) == SelectSeq(s, LAMBDA c : c # ",")

DigitValue(c) ==
    CASE c = "0" -> 0 [] c = "1" -> 1 [] c = "2" -> 2 [] c = "3" -> 3
      [] c = "4" -> 4 [] c = "5" -> 5 [] c = "6" -> 6 [] c = "7" -> 7
      [] c = "8" -> 8 [] c = "9" -> 9

RECURSIVE DigitsValue(_)
DigitsValue(s) ==
    IF s = <<>> THEN 0
    ELSE 10 * DigitsValue(SubSeq(s, 1, Len(s) - 1)) + DigitValue(s[Len(s)])

\* int() of the digits before the dot
FloatWholePart(amount_str) ==
    LET dots == { k \in 1..Len(amount_str) : amount_str[k] = "." }
    IN IF dots = {} THEN Some(100 * DigitsValue(amount_str))
       ELSE Some(100 * DigitsValue(SubSeq(amount_str, 1,
                                          (CHOOSE k \in dots : \A j \in dots : k <= j) - 1)))

\* float(amount_str) of a string of digits and dots: None stands for the
\* ValueError of a string with two dots.  The value is in hundredths; digits
\* after the second decimal place are dropped, and the texts of this model
\* carry at most two.
Float(amount_str) ==
    LET dots == { k \in 1..Len(amount_str) : amount_str[k] = "." }
    IN IF Cardinality(dots) > 1 THEN None
       ELSE IF dots = {} THEN Some(100 * DigitsValue(amount_str))
       ELSE LET d == CHOOSE k \in dots : TRUE
                whole == SubSeq(amount_str, 1, d - 1)
                frac == SubSeq(amount_str, d + 1, Len(amount_str))
                cents == SubSeq(frac \o <<"0", "0">>, 1, 2)
            IN Some(100 * DigitsValue(whole) + DigitsValue(cents))

\* the loop over patterns: the first pattern that matches and whose number
\* float() accepts decides; a ValueError moves on to the next pattern
RECURSIVE ExtractFrom(_, _)
ExtractFrom(text, pattern) ==
    IF pattern > 3 THEN None
    ELSE LET match == Search(text, pattern)
         IN IF match # None /\ Float(RemoveCommas(match[1])) # None
            THEN Float(RemoveCommas(match[1]))
            ELSE ExtractFrom(text, pattern + 1)

extract_amount_from_text(text) == ExtractFrom(text, 1)

\* sample_texts[0] of add_transaction_form, the text the simulated OCR returns
SampleText0 ==
    <<"T","O","T","A","L",":"," ","$","4","5",".","5","0","\n",
      "T","h","a","n","k"," ","y","o","u"," ","f","o","r"," ",
      "y","o","u","r"," ","p","u","r","c","h","a","s","e">>

----------------------------------------------------------------------------
(* The store: save_user, verify_user, save_transaction, update_trust_score *)

\* len(password)
PasswordLength(password) == Len(password)

\* the account starts without a score
NewUserNoScore(email, name, password, plan) ==
    [name |-> name, email |-> email, password |-> Sha256(password),
     plan |-> plan, trust_score |-> 0, consistency_days |-> 0,
     profile_image |-> None]

\* the record save_user stores (created_at, a wall-clock string that nothing
\* reads, is left out)
NewUser(email, name, password, plan) ==
    [name |-> name, email |-> email, password |-> Sha256(password),
     plan |-> plan, trust_score |-> BaseScore, consistency_days |-> 0,
     profile_image |-> None]

\* users_db and transactions_db after save_user(email, name, password, plan)
save_user_users(udb, email, name, password, plan) ==
    Put(udb, email, NewUser(email, name, password, plan))

save_user_transactions(tdb, email) == Put(tdb, email, <<>>)

verify_user(udb, email, password) ==
    IF email \in DOMAIN udb
    THEN udb[email].password = Sha256(password)
    ELSE FALSE

\* the transaction goes to the end of the list
InsertTransactionAtEnd(tdb, email, transaction_data) ==
    LET present == IF email \notin DOMAIN tdb THEN Put(tdb, email, <<>>) ELSE tdb
    IN [present EXCEPT ![email] = @ \o <<transaction_data>>]

\* every user's ledger is one shared list
InsertTransactionShared(tdb, email, transaction_data) ==
    LET present == IF email \notin DOMAIN tdb THEN Put(tdb, email, <<>>) ELSE tdb
    IN [e \in DOMAIN present |-> <<transaction_data>> \o present[e]]

\* transactions_db after lines 62-64 of save_transaction
InsertTransaction(tdb, email, transaction_data) ==
    LET present == IF email \notin DOMAIN tdb THEN Put(tdb, email, <<>>) ELSE tdb
    IN [present EXCEPT ![email] = <<transaction_data>> \o @]

\* the score is recomputed from the ledger as it was before the insert
update_trust_score_stale(udb, tdb, email) ==
    [udb EXCEPT ![email].trust_score = ScoreOfLedger(Tail(tdb[email]))]

\* users_db after update_trust_score(email); users_db[email] raises KeyError
\* when email is no key, which the callers below test for
update_trust_score(udb, tdb, email) ==
    [udb EXCEPT ![email].trust_score = calculate_trust_score(tdb, email)]

\* number of transactions stored, over all ledgers
RECURSIVE TotalTx(_)
TotalTx(tdb) ==
    IF DOMAIN tdb = {} THEN 0
    ELSE LET e == CHOOSE e \in DOMAIN tdb : TRUE
         IN Len(tdb[e]) + TotalTx([x \in (DOMAIN tdb) \ {e} |-> tdb[x]])

\* Python truth of an optional number: None and 0 are false
Truthy(opt) == opt # None /\ opt[1] # 0

----------------------------------------------------------------------------
(* The session state machine: one action per form submission or button *)

Idle == [t \in Threads |-> "idle"]
NoLocals == [t \in Threads |-> None]

Init ==
    /\ authenticated = FALSE
    /\ current_user = None
    /\ page = "Dashboard"
    /\ users_db = EmptyDict
    /\ transactions_db = EmptyDict
    /\ last = [op |-> "start", status |-> "ok"]
    /\ pc = Idle
    /\ local = NoLocals
    /\ workload = None

\* login_page, "Sign In" (lines 396-403)
SignIn(email, password) ==
    /\ ~authenticated
    /\ IF verify_user(users_db, email, password)
       THEN /\ authenticated' = TRUE
            /\ current_user' = Some(email)
            /\ last' = [op |-> "sign_in", status |-> "ok"]
       ELSE /\ UNCHANGED <<authenticated, current_user>>
            /\ last' = [op |-> "sign_in", status |-> "invalid"]
    /\ UNCHANGED <<page, users_db, transactions_db, pc, local, workload>>

\* the form does not look the email up before it calls save_user
SignUpOverwrites(name, email, password, plan, agree) ==
    /\ ~authenticated
    /\ IF name = "" \/ email = "" \/ password = ""
       THEN /\ last' = [op |-> "sign_up", status |-> "fill_in_all_fields"]
            /\ UNCHANGED <<users_db, transactions_db>>
       ELSE IF ~agree
       THEN /\ last' = [op |-> "sign_up", status |-> "agree_to_terms"]
            /\ UNCHANGED <<users_db, transactions_db>>
       ELSE IF PasswordLength(password) < 8
       THEN /\ last' = [op |-> "sign_up", status |-> "password_too_short"]
            /\ UNCHANGED <<users_db, transactions_db>>
       ELSE /\ users_db' = save_user_users(users_db, email, name, password, plan)
            /\ transactions_db' = save_user_transactions(transactions_db, email)
            /\ last' = [op |-> "sign_up", status |-> "ok"]
    /\ UNCHANGED <<authenticated, current_user, page, pc, local, workload>>

\* login_page, "Create Account" (lines 429-442)
SignUp(name, email, password, plan, agree) ==
    /\ ~authenticated
    /\ IF name = "" \/ email = "" \/ password = ""
       THEN /\ last' = [op |-> "sign_up", status |-> "fill_in_all_fields"]
            /\ UNCHANGED <<users_db, transactions_db>>
       ELSE IF ~agree
       THEN /\ last' = [op |-> "sign_up", status |-> "agree_to_terms"]
            /\ UNCHANGED <<users_db, transactions_db>>
       ELSE IF email \in DOMAIN users_db
       THEN /\ last' = [op |-> "sign_up", status |-> "already_registered"]
            /\ UNCHANGED <<users_db, transactions_db>>
       ELSE IF PasswordLength(password) < 8
       THEN /\ last' = [op |-> "sign_up", status |-> "password_too_short"]
            /\ UNCHANGED <<users_db, transactions_db>>
       ELSE /\ users_db' = save_user_users(users_db, email, name, password, plan)
            /\ transactions_db' = save_user_transactions(transactions_db, email)
            /\ last' = [op |-> "sign_up", status |-> "ok"]
    /\ UNCHANGED <<authenticated, current_user, page, pc, local, workload>>

\* current_user is not cleared
SignOutKeepsUser ==
    /\ authenticated
    /\ authenticated' = FALSE
    /\ last' = [op |-> "sign_out", status |-> "ok"]
    /\ UNCHANGED <<current_user, page, users_db, transactions_db, pc, local,
                   workload>>

\* sidebar_navigation, "Sign Out" (lines 511-514)
SignOut ==
    /\ authenticated
    /\ authenticated' = FALSE
    /\ current_user' = None
    /\ last' = [op |-> "sign_out", status |-> "ok"]
    /\ UNCHANGED <<page, users_db, transactions_db, pc, local, workload>>

\* sidebar_navigation, the page buttons (lines 479-509), and the dashboard's
\* "Generate Report" button (lines 683-685)
Navigate(page_name) ==
    /\ authenticated
    /\ page' = page_name
    /\ last' = [op |-> "navigate", status |-> "ok"]
    /\ UNCHANGED <<authenticated, current_user, users_db, transactions_db,
                   pc, local, workload>>

\* the text read from the form's OCR variable is stored whether or not a
\* receipt was uploaded
new_txn_keeps_text(txn_type, final_amount, category, txn_date, now_time, description, uploaded, extracted_text) ==
    [date |-> [day |-> txn_date, time |-> now_time],
     type |-> txn_type,
     amount |-> final_amount,
     category |-> category,
     description |-> description,
     verified |-> uploaded,
     extracted_text |-> Some(extracted_text)]

\* new_txn (lines 816-824); uploaded is "uploaded_file is not None"
new_txn(txn_type, final_amount, category, txn_date, now_time, description, uploaded, extracted_text) ==
    [date |-> [day |-> txn_date, time |-> now_time],
     type |-> txn_type,
     amount |-> final_amount,
     category |-> category,
     description |-> description,
     verified |-> uploaded,
     extracted_text |-> IF uploaded THEN Some(extracted_text) ELSE None]

\* add_transaction_form, "Save Transaction" (lines 771-831).  amount is the
\* number_input (None when left empty, at least 0.01 otherwise), uploaded
\* tells whether a receipt file was given, now_time is datetime.now().time().
AddTransaction(txn_type, amount, category, txn_date, now_time, description, uploaded) ==
    /\ authenticated
    /\ page = "Transactions"
    /\ TotalTx(transactions_db) < MaxTx
    /\ LET extracted_text == IF uploaded THEN SampleText0 ELSE <<>>
           extracted_amount ==
               IF uploaded THEN extract_amount_from_text(extracted_text)
               ELSE None
           final_amount == IF Truthy(amount) THEN amount ELSE extracted_amount
           transaction_data == new_txn(txn_type, final_amount[1], category,
                                       txn_date, now_time, description,
                                       uploaded, extracted_text)
           email == current_user[1]
       IN IF ~Truthy(final_amount)
          THEN /\ last' = [op |-> "add_transaction", status |-> "amount_required"]
               /\ UNCHANGED <<users_db, transactions_db>>
          ELSE IF category = ""
          THEN /\ last' = [op |-> "add_transaction", status |-> "category_required"]
               /\ UNCHANGED <<users_db, transactions_db>>
          ELSE /\ transactions_db' =
                      InsertTransaction(transactions_db, email, transaction_data)
               /\ users_db' = update_trust_score(users_db, transactions_db', email)
               /\ last' = [op |-> "add_transaction",
                           status |-> IF Truthy(amount) THEN "saved_manual"
                                      ELSE "saved_extracted"]
    /\ UNCHANGED <<authenticated, current_user, page, pc, local, workload>>

\* the profile is written back with the score of a new account
SaveProfileResetsScore(name) ==
    /\ authenticated
    /\ page = "Profile"
    /\ users_db' = [users_db EXCEPT ![current_user[1]] =
                        [@ EXCEPT !.name = name, !.trust_score = BaseScore]]
    /\ last' = [op |-> "save_profile", status |-> "ok"]
    /\ UNCHANGED <<authenticated, current_user, page, transactions_db,
                   pc, local, workload>>

\* profile_page, "Save Changes" (lines 864-866)
SaveProfile(name) ==
    /\ authenticated
    /\ page = "Profile"
    /\ users_db' = [users_db EXCEPT ![current_user[1]].name = name]
    /\ last' = [op |-> "save_profile", status |-> "ok"]
    /\ UNCHANGED <<authenticated, current_user, page, transactions_db,
                   pc, local, workload>>

\* profile_page, "Update Password" (lines 882-888): nothing is stored
UpdatePassword(new_password, confirm_password) ==
    /\ authenticated
    /\ page = "Profile"
    /\ last' = [op |-> "update_password",
                status |-> IF new_password # confirm_password THEN "mismatch"
                           ELSE IF PasswordLength(new_password) < 8
                           THEN "too_short" ELSE "ok"]
    /\ UNCHANGED <<authenticated, current_user, page, users_db,
                   transactions_db, pc, local, workload>>

\* financial_report_page, "Generate Report" (lines 1056-1069): read only
GenerateReport ==
    /\ authenticated
    /\ page = "Financial Report"
    /\ last' = [op |-> "generate_report", status |-> "ok"]
    /\ UNCHANGED <<authenticated, current_user, page, users_db,
                   transactions_db, pc, local, workload>>

\* points = 5 if uploaded_file else 2 (line 828): the increase the form's
\* success message announces ("+5 points instead of +2", line 763)
points_announced(uploaded) == IF uploaded THEN 5 ELSE 2

\* a number_input without min_value lets a negative amount through
AmountInputsSigned == {None} \cup { Some(a) : a \in ManualAmounts \cup {-100} }

\* st.number_input("Amount", min_value=0.01, value=None) (line 752)
AmountInputs == {None} \cup { Some(a) : a \in ManualAmounts }

Next ==
    \/ \E email \in Emails \cup {""}, password \in Passwords :
           SignIn(email, password)
    \/ \E name \in Names \cup {""}, email \in Emails, password \in Passwords,
          plan \in Plans, agree \in BOOLEAN :
           SignUp(name, email, password, plan, agree)
    \/ SignOut
    \/ \E page_name \in Pages : Navigate(page_name)
    \/ \E txn_type \in Types, amount \in AmountInputs, category \in Categories,
          txn_date \in FormDays, now_time \in FormTimes, uploaded \in BOOLEAN :
           AddTransaction(txn_type, amount, category, txn_date, now_time, "",
                          uploaded)
    \/ \E name \in Names : SaveProfile(name)
    \/ \E new_password \in Passwords, confirm_password \in Passwords :
           UpdatePassword(new_password, confirm_password)
    \/ GenerateReport

Spec == Init /\ [][Next]_vars

----------------------------------------------------------------------------
(* Direct calls of the store functions, as a caller other than the pages    *)
(* may make them: any email, any transaction dictionary.                   *)

\* save_user(email, name, password, plan) (lines 32-47)
CallSaveUser(email, name, password, plan) ==
    /\ users_db' = save_user_users(users_db, email, name, password, plan)
    /\ transactions_db' = save_user_transactions(transactions_db, email)
    /\ last' = [op |-> "save_user", status |-> "ok"]
    /\ UNCHANGED <<authenticated, current_user, page, pc, local, workload>>

\* save_transaction(email, transaction_data) (lines 60-65, 128-131): the
\* insert of line 64 has happened when users_db[email] raises KeyError
CallSaveTransaction(email, transaction_data) ==
    /\ TotalTx(transactions_db) < MaxCalls
    /\ transactions_db' = InsertTransaction(transactions_db, email, transaction_data)
    /\ IF email \in DOMAIN users_db
       THEN /\ users_db' = update_trust_score(users_db, transactions_db', email)
            /\ last' = [op |-> "save_transaction", status |-> "ok"]
       ELSE /\ UNCHANGED users_db
            /\ last' = [op |-> "save_transaction", status |-> "KeyError"]
    /\ UNCHANGED <<authenticated, current_user, page, pc, local, workload>>

CallTransactions ==
    [date : [day : Days, time : {0}], type : Types, amount : CallAmounts,
     category : Categories, description : {""}, verified : BOOLEAN,
     extracted_text : {None}]

NextCalls ==
    \/ \E email \in Emails : CallSaveUser(email, "Ann", "longpassword", "free")
    \/ \E email \in Emails, transaction_data \in CallTransactions :
           CallSaveTransaction(email, transaction_data)

SpecCalls == Init /\ [][NextCalls]_vars

----------------------------------------------------------------------------
(* Concurrent calls of save_transaction: the store has no lock, so the     *)
(* calls of two threads interleave between the insert (line 64), the       *)
(* recomputation (line 130) and the write of the cached score (line 131).  *)

ThreadTransactions ==
    [date : [day : Days, time : {0}], type : Types, amount : {100},
     category : Categories, description : {""}, verified : BOOLEAN,
     extracted_text : {None}]

\* both accounts exist, as they do for any email the pages append for
InitThreads ==
    /\ authenticated = FALSE
    /\ current_user = None
    /\ page = "Dashboard"
    /\ users_db = [e \in Emails |-> NewUser(e, "Ann", "longpassword", "free")]
    /\ transactions_db = [e \in Emails |-> <<>>]
    /\ last = [op |-> "start", status |-> "ok"]
    /\ pc = Idle
    /\ local = NoLocals
    /\ workload = None

\* thread t enters save_transaction(email, transaction_data)
ThreadCall(t, email, transaction_data) ==
    /\ pc[t] = "idle"
    /\ pc' = [pc EXCEPT ![t] = "insert"]
    /\ local' = [local EXCEPT ![t] = Some([email |-> email,
                                           transaction_data |-> transaction_data,
                                           new_score |-> None])]
    /\ UNCHANGED <<authenticated, current_user, page, users_db,
                   transactions_db, last, workload>>

\* lines 62-64
ThreadInsert(t) ==
    /\ pc[t] = "insert"
    /\ transactions_db' = InsertTransaction(transactions_db, local[t][1].email,
                                            local[t][1].transaction_data)
    /\ pc' = [pc EXCEPT ![t] = "calculate"]
    /\ UNCHANGED <<authenticated, current_user, page, users_db, last, local,
                   workload>>

\* line 130: new_score = calculate_trust_score(email)
ThreadCalculate(t) ==
    /\ pc[t] = "calculate"
    /\ local' = [local EXCEPT ![t] = Some([local[t][1] EXCEPT !.new_score =
                     Some(calculate_trust_score(transactions_db, local[t][1].email))])]
    /\ pc' = [pc EXCEPT ![t] = "store"]
    /\ UNCHANGED <<authenticated, current_user, page, users_db,
                   transactions_db, last, workload>>

\* line 131: users_db[email]['trust_score'] = new_score
ThreadStore(t) ==
    /\ pc[t] = "store"
    /\ users_db' = [users_db EXCEPT ![local[t][1].email].trust_score =
                        local[t][1].new_score[1]]
    /\ pc' = [pc EXCEPT ![t] = "done"]
    /\ UNCHANGED <<authenticated, current_user, page, transactions_db, last,
                   local, workload>>

NextThreads ==
    \/ \E t \in Threads, email \in Emails, transaction_data \in ThreadTransactions :
           ThreadCall(t, email, transaction_data)
    \/ \E t \in Threads : ThreadInsert(t)
    \/ \E t \in Threads : ThreadCalculate(t)
    \/ \E t \in Threads : ThreadStore(t)

SpecThreads == InitThreads /\ [][NextThreads]_vars

----------------------------------------------------------------------------
(* Scoring harness: one account, and a scripted series of appends that     *)
(* grows its ledger to MaxLen transactions.  The script fixes which        *)
(* transactions are verified, their types, their dates and their amounts.  *)

Modes == {"all", "none", "alternate"}
DayModes == {"same", "distinct", "pairs"}
ScriptAmounts == {1000, 10000}

Scripts ==
    [verified : Modes, income : Modes, days : DayModes,
     income_amount : ScriptAmounts, expense_amount : ScriptAmounts]

Holds(mode, k) ==
    IF mode = "all" THEN TRUE
    ELSE IF mode = "none" THEN FALSE
    ELSE k % 2 = 1

\* the k-th transaction of a script
ScriptTransaction(script, k) ==
    LET income == Holds(script.income, k)
    IN [date |-> [day |-> IF script.days = "same" THEN 1
                          ELSE IF script.days = "distinct" THEN k
                          ELSE (k + 1) \div 2,
                  time |-> k % 3],
        type |-> IF income THEN "Income" ELSE "Expense",
        amount |-> IF income THEN script.income_amount ELSE script.expense_amount,
        category |-> "Salary",
        description |-> "",
        verified |-> Holds(script.verified, k),
        extracted_text |-> IF Holds(script.verified, k) THEN Some(SampleText0)
                           ELSE None]

ScoreUser == "a@x.io"

InitScore ==
    /\ authenticated = FALSE
    /\ current_user = None
    /\ page = "Dashboard"
    /\ users_db = save_user_users(EmptyDict, ScoreUser, "Ann", "longpassword", "free")
    /\ transactions_db = save_user_transactions(EmptyDict, ScoreUser)
    /\ last = [op |-> "save_user", status |-> "ok"]
    /\ pc = Idle
    /\ local = NoLocals
    /\ workload \in { Some(script) : script \in Scripts }

\* save_transaction(ScoreUser, the next transaction of the script)
ScriptAppend ==
    /\ Len(transactions_db[ScoreUser]) < MaxLen
    /\ transactions_db' =
           InsertTransaction(transactions_db, ScoreUser,
               ScriptTransaction(workload[1], Len(transactions_db[ScoreUser]) + 1))
    /\ users_db' = update_trust_score(users_db, transactions_db', ScoreUser)
    /\ last' = [op |-> "save_transaction", status |-> "ok"]
    /\ UNCHANGED <<authenticated, current_user, page, pc, local, workload>>

SpecScore == InitScore /\ [][ScriptAppend]_vars

----------------------------------------------------------------------------
(* Tier harness: get_score_tier applied to a score, then to a higher one   *)

InitTier ==
    /\ authenticated = FALSE
    /\ current_user = None
    /\ page = "Dashboard"
    /\ users_db = EmptyDict
    /\ transactions_db = EmptyDict
    /\ pc = Idle
    /\ local = NoLocals
    /\ workload \in { Some(score) : score \in 0..MaxScoreProbe }
    /\ last = [op |-> "get_score_tier", status |-> get_score_tier(workload[1])]

\* status, color, level = get_score_tier(trust_score) (line 570)
TierOfHigherScore(score) ==
    /\ score > workload[1]
    /\ workload' = Some(score)
    /\ last' = [op |-> "get_score_tier", status |-> get_score_tier(score)]
    /\ UNCHANGED <<authenticated, current_user, page, users_db,
                   transactions_db, pc, local>>

NextTier == \E score \in 0..MaxScoreProbe : TierOfHigherScore(score)

SpecTier == InitTier /\ [][NextTier]_vars

----------------------------------------------------------------------------
(* transactions_page and dashboard_page: what a run of the page shows.     *)
(* The page harness starts from one signed-in account on the Transactions  *)
(* page; the form's date input is free there (Days), so that the dates of  *)
(* a ledger need not follow the order of its insertions.                   *)

FilterTypes == {"All", "Income", "Expense"}
FilterVerified == {"All", "Verified Only", "Unverified Only"}
SortOptions == {"Date (Newest)", "Date (Oldest)",
                "Amount (High-Low)", "Amount (Low-High)"}

\* "Amount" in sort_by (line 715), "High" in sort_by (line 716)
AmountIn(sort_by) == sort_by \in {"Amount (High-Low)", "Amount (Low-High)"}
HighIn(sort_by) == sort_by = "Amount (High-Low)"

\* sorted(filtered, key=lambda x: x['amount'], reverse=...) (line 716):
\* a stable sort, also when reversed
RECURSIVE SortedByAmount(_, _)
SortedByAmount(filtered, reverse) ==
    IF filtered = <<>> THEN <<>>
    ELSE LET x == Head(filtered)
             rest == SortedByAmount(Tail(filtered), reverse)
             Before(t) == IF reverse THEN t.amount > x.amount
                          ELSE t.amount < x.amount
             NotBefore(t) == ~Before(t)
         IN SelectSeq(rest, Before) \o <<x>> \o SelectSeq(rest, NotBefore)

\* the stored list itself is the one sorted
SortedInPlace(transactions, sort_by) ==
    IF AmountIn(sort_by) THEN SortedByAmount(transactions, HighIn(sort_by))
    ELSE transactions

\* filtered = transactions.copy() (line 706): the stored list is not the
\* one the page filters and sorts
StoredAfterListing(transactions, sort_by) == transactions

\* transactions_page, the filters and the sort (lines 706-716)
ListTransactions(transactions, filter_type, filter_verified, sort_by) ==
    LET OfType(t) == filter_type = "All" \/ t.type = filter_type
        OfVerified(t) ==
            CASE filter_verified = "Verified Only" -> t.verified
              [] filter_verified = "Unverified Only" -> ~t.verified
              [] OTHER -> TRUE
        filtered == SelectSeq(SelectSeq(transactions, OfType), OfVerified)
    IN IF AmountIn(sort_by) THEN SortedByAmount(filtered, HighIn(sort_by))
       ELSE filtered

PageUser == "a@x.io"

InitPages ==
    /\ authenticated = TRUE
    /\ current_user = Some(PageUser)
    /\ page = "Transactions"
    /\ users_db = save_user_users(EmptyDict, PageUser, "Ann", "longpassword", "free")
    /\ transactions_db = save_user_transactions(EmptyDict, PageUser)
    /\ last = [op |-> "sign_in", status |-> "ok"]
    /\ pc = Idle
    /\ local = NoLocals
    /\ workload = None

\* transactions_page, the "All Transactions" tab (lines 687-742): a run of
\* the page with the chosen filters and sort; last records what it lists
ViewTransactions(filter_type, filter_verified, sort_by) ==
    /\ authenticated
    /\ page = "Transactions"
    /\ LET email == current_user[1]
           transactions == get_user_transactions(transactions_db, email)
       IN /\ last' = [op |-> "transactions_page",
                      status |-> IF transactions = <<>> THEN "empty" ELSE "listed",
                      query |-> <<filter_type, filter_verified, sort_by>>,
                      result |-> IF transactions = <<>> THEN <<>>
                                 ELSE ListTransactions(transactions, filter_type,
                                                       filter_verified, sort_by)]
          /\ transactions_db' =
                 IF email \in DOMAIN transactions_db
                 THEN [transactions_db EXCEPT
                          ![email] = StoredAfterListing(transactions, sort_by)]
                 ELSE transactions_db
    /\ UNCHANGED <<authenticated, current_user, page, users_db,
                   pc, local, workload>>

\* dashboard_page, the trust score section (lines 517-570): a run of the
\* page; last records the score and the tier it shows
ViewDashboard ==
    /\ authenticated
    /\ page = "Dashboard"
    /\ LET trust_score == users_db[current_user[1]].trust_score
       IN last' = [op |-> "dashboard_page", status |-> "ok",
                   query |-> <<>>,
                   result |-> <<trust_score, get_score_tier(trust_score)>>]
    /\ UNCHANGED <<authenticated, current_user, page, users_db,
                   transactions_db, pc, local, workload>>

NextPages ==
    \/ \E page_name \in {"Dashboard", "Transactions"} : Navigate(page_name)
    \/ \E txn_type \in Types, amount \in AmountInputs, txn_date \in Days,
          uploaded \in BOOLEAN :
          AddTransaction(txn_type, amount, "Salary", txn_date, 0, "", uploaded)
    \/ \E filter_type \in FilterTypes, filter_verified \in FilterVerified,
          sort_by \in SortOptions :
          ViewTransactions(filter_type, filter_verified, sort_by)
    \/ ViewDashboard

SpecPages == InitPages /\ [][NextPages]_vars

----------------------------------------------------------------------------
(* Extractor harness: extract_amount_from_text applied to the text of a    *)
(* receipt that reads "<label>: <symbol><amount>".  The amount is written  *)
(* as leading digits, groups of three digits each after a comma, and an    *)
(* optional fraction after a dot.                                          *)

LeadDigits == { <<"5">>, <<"1">>, <<"1","2">>, <<"2","0">> }
DigitGroups == { <<"2","3","4">>, <<"0","0","0">> }
GroupLists == {<<>>} \cup { <<g>> : g \in DigitGroups }
                  \cup { <<g, h>> : g \in DigitGroups, h \in DigitGroups }
Fractions == { None, Some(<<"0","0">>), Some(<<"5","0">>), Some(<<"5">>) }
ReceiptLiterals == [lead : LeadDigits, groups : GroupLists, frac : Fractions]

\* the digits of the groups, one after the other, sep before each group
RECURSIVE JoinGroups(_, _)
JoinGroups(groups, sep) ==
    IF groups = <<>> THEN <<>>
    ELSE sep \o Head(groups) \o JoinGroups(Tail(groups), sep)

LiteralText(literal) ==
    literal.lead \o JoinGroups(literal.groups, <<",">>)
        \o (IF literal.frac = None THEN <<>> ELSE <<".">> \o literal.frac[1])

\* every upper/lower-case spelling of a word
Spellings(upper, lower) ==
    { [k \in 1..Len(upper) |-> IF k \in caps THEN upper[k] ELSE lower[k]] :
        caps \in SUBSET (1..Len(upper)) }

LabelSpellings ==
    Spellings(Labels[1], Labels[3]) \cup Spellings(Labels[4], Labels[6])

ReceiptText(receipt) ==
    receipt.label \o <<":", " ">> \o receipt.symbol \o LiteralText(receipt.literal)

\* "TOTAL: $A" for every amount A, and every spelling of the labels before
\* a plain amount without currency symbol
Receipts ==
    [label : {Labels[1]}, symbol : {<<"$">>}, literal : ReceiptLiterals]
    \cup [label : LabelSpellings, symbol : {<<>>},
          literal : [lead : {<<"1","2">>}, groups : {<<>>},
                     frac : {None, Some(<<"5","0">>)}]]

\* extracted_text is the text the OCR gives for the receipt (line 791)
InitExtract ==
    /\ authenticated = FALSE
    /\ current_user = None
    /\ page = "Dashboard"
    /\ users_db = EmptyDict
    /\ transactions_db = EmptyDict
    /\ last = [op |-> "start", status |-> "ok"]
    /\ pc = Idle
    /\ local = NoLocals
    /\ workload \in { Some(receipt) : receipt \in Receipts }

\* extracted_amount = extract_amount_from_text(extracted_text) (line 794)
ExtractAmount ==
    /\ last.op = "start"
    /\ last' = [op |-> "extract_amount_from_text",
                status |-> extract_amount_from_text(ReceiptText(workload[1]))]
    /\ UNCHANGED <<authenticated, current_user, page, users_db,
                   transactions_db, pc, local, workload>>

SpecExtract == InitExtract /\ [][ExtractAmount]_vars

----------------------------------------------------------------------------
(* Properties *)

Ledger(email) == transactions_db[email]
CachedScore(email) == users_db[email].trust_score

\* C1: after any sequence of account creations and completed transaction
\* saves, every user's cached trust_score equals calculate_trust_score over
\* that user's current ledger.
C1_CachedScoreFollowsLedger ==
    \A email \in DOMAIN users_db :
        CachedScore(email) = calculate_trust_score(transactions_db, email)

\* a user holds two transactions, the second one just saved, and a score above
\* the base
C1_Witness ==
    /\ last.op = "add_transaction"
    /\ \E email \in DOMAIN users_db :
           /\ Len(Ledger(email)) = 2
           /\ CachedScore(email) > BaseScore

\* the step is a completed save_transaction that appended to email's ledger
AppendedTo(email) ==
    /\ last'.op = "save_transaction"
    /\ last'.status = "ok"
    /\ email \in DOMAIN users_db
    /\ email \in DOMAIN transactions_db
    /\ Len(transactions_db'[email]) = Len(transactions_db[email]) + 1

WellFormed(transaction_data) == transaction_data.amount > 0

AllWellFormed(transactions) ==
    \A k \in 1..Len(transactions) : WellFormed(transactions[k])

EndsPositiveCashFlow(email) ==
    /\ Head(transactions_db'[email]).type = "Expense"
    /\ SumAmount(transactions_db[email], "Income")
         > SumAmount(transactions_db[email], "Expense")
    /\ ~(SumAmount(transactions_db'[email], "Income")
           > SumAmount(transactions_db'[email], "Expense"))

C3_ScoreWithinRange ==
    \A email \in DOMAIN users_db :
        /\ CachedScore(email) \in Int
        /\ 300 <= CachedScore(email)
        /\ CachedScore(email) <= 850

\* a ledger whose points add up to more than 850 and whose score is 850
C3_Witness ==
    /\ Len(Ledger(ScoreUser)) >= 70
    /\ BaseScore + (VerifiedPoints + TransactionPoints + DayPoints)
                     * Len(Ledger(ScoreUser)) > 850
    /\ CountVerified(Ledger(ScoreUser)) = Len(Ledger(ScoreUser))
    /\ Cardinality(TransactionDates(Ledger(ScoreUser))) = Len(Ledger(ScoreUser))
    /\ CachedScore(ScoreUser) = 850

\* both threads have finished a save_transaction for the same email
BothDoneFor(email) ==
    \A t \in Threads : pc[t] = "done" /\ local[t][1].email = email

\* C4: two concurrent appends for the same user, each running insert,
\* recompute, write, always end with a ledger that holds both transactions
\* and a cached score equal to the recomputation over that ledger.
C4_NoLostUpdate ==
    \A email \in Emails :
        BothDoneFor(email) =>
            /\ Len(Ledger(email)) = Cardinality(Threads)
            /\ \A t \in Threads :
                   \E k \in 1..Len(Ledger(email)) :
                       Ledger(email)[k] = local[t][1].transaction_data
            /\ CachedScore(email) = calculate_trust_score(transactions_db, email)

\* the step is a save_transaction that raised an error
SaveTransactionFailed ==
    /\ last'.op = "save_transaction"
    /\ last'.status = "KeyError"

\* C5: append is all-or-nothing: whenever recording a transaction fails with
\* an error (an email without an entry in users_db included), the ledgers
\* and the cached scores of all users are what they were before the call.
C5_FailedAppendChangesNothing ==
    [][SaveTransactionFailed => UNCHANGED <<users_db, transactions_db>>]_vars

\* C6: save_transaction refuses a transaction whose amount is not > 0 and
\* leaves the ledger unchanged, so no ledger ever holds such a transaction.
C6_MalformedRejectedAtAppend ==
    \A email \in DOMAIN users_db :
        \A k \in 1..Len(Ledger(email)) : Ledger(email)[k].amount > 0

\* C7: when the manual amount is absent the saved transaction carries the
\* amount extracted from the evidence text, and when extraction yields no
\* amount either the operation fails and no transaction is saved.  The
\* evidence text of the form reads TOTAL: $45.50, which is 4550 hundredths.
C7_ExtractedAmountOrFailure ==
    /\ [](last = [op |-> "add_transaction", status |-> "saved_extracted"]
            => /\ Ledger(current_user[1]) # <<>>
               /\ Head(Ledger(current_user[1])).amount = 4550
               /\ Head(Ledger(current_user[1])).extracted_text = Some(SampleText0))
    /\ [][last'.status = "amount_required"
            => UNCHANGED <<users_db, transactions_db>>]_vars

\* a transaction was just saved with the extracted amount
C7_Witness ==
    /\ last = [op |-> "add_transaction", status |-> "saved_extracted"]
    /\ Head(Ledger(current_user[1])).amount = 4550

\* sum of the amounts of a type over the first k transactions
RECURSIVE TotalOf(_, _, _)
TotalOf(transactions, type, k) ==
    IF k = 0 THEN 0
    ELSE TotalOf(transactions, type, k - 1)
         + (IF transactions[k].type = type THEN transactions[k].amount ELSE 0)

\* min(850, 300 + 5v + n + 2d + 20[d >= 30] + 15[income > expense] + 10[an Income])
ClosedFormScore(transactions) ==
    LET n == Len(transactions)
        v == Cardinality({ k \in 1..n : transactions[k].verified })
        d == Cardinality({ transactions[k].date.day : k \in 1..n })
        points == 300 + 5 * v + n + 2 * d
                  + (IF d >= 30 THEN 20 ELSE 0)
                  + (IF TotalOf(transactions, "Income", n)
                          > TotalOf(transactions, "Expense", n) THEN 15 ELSE 0)
                  + (IF \E k \in 1..n : transactions[k].type = "Income"
                     THEN 10 ELSE 0)
    IN IF points > 850 THEN 850 ELSE points

\* one verified Income of 100.00
OneVerifiedIncome(transactions) ==
    /\ Len(transactions) = 1
    /\ transactions[1].verified
    /\ transactions[1].type = "Income"
    /\ transactions[1].amount = 10000

\* 30 unverified Expenses of 10.00 on 30 distinct dates
ThirtyExpenses(transactions) ==
    /\ Len(transactions) = 30
    /\ \A k \in 1..30 : /\ ~transactions[k].verified
                        /\ transactions[k].type = "Expense"
                        /\ transactions[k].amount = 1000
    /\ \A j, k \in 1..30 :
           j # k => transactions[j].date.day # transactions[k].date.day

C9_NewProfileAndEmptyLedger ==
    /\ [](\A email \in DOMAIN users_db :
             get_user_transactions(transactions_db, email) = <<>>
               => /\ CachedScore(email) = 300
                  /\ get_score_tier(CachedScore(email))[1] = "Starting")
    /\ [][\A email \in Emails :
             (email \notin DOMAIN users_db /\ email \in DOMAIN users_db')
               => /\ users_db'[email].trust_score = 300
                  /\ email \in DOMAIN transactions_db'
                  /\ transactions_db'[email] = <<>>]_vars

\* an account was just created next to one that holds a transaction
C9_Witness ==
    /\ last = [op |-> "sign_up", status |-> "ok"]
    /\ \E email \in DOMAIN users_db :
           Ledger(email) = <<>> /\ CachedScore(email) = 300
    /\ \E email \in DOMAIN users_db : Ledger(email) # <<>>

LevelNumber(tier) ==
    CASE tier[3] = "LEVEL 1" -> 1 [] tier[3] = "LEVEL 2" -> 2
      [] tier[3] = "LEVEL 3" -> 3 [] tier[3] = "LEVEL 4" -> 4
      [] tier[3] = "LEVEL 5" -> 5

TierIs(tier, name, level) == tier[1] = name /\ tier[3] = level

\* C10: get_score_tier gives Excellent/LEVEL 5 from 750 on, Good/LEVEL 4 for
\* 650..749, Building/LEVEL 3 for 500..649, Fair/LEVEL 2 for 400..499 and
\* Starting/LEVEL 1 below 400, so the tier never decreases when the score
\* increases.
C10_TierBuckets ==
    /\ [](LET score == workload[1]
              tier == last.status
          IN /\ score >= 750 => TierIs(tier, "Excellent", "LEVEL 5")
             /\ (650 <= score /\ score <= 749) => TierIs(tier, "Good", "LEVEL 4")
             /\ (500 <= score /\ score <= 649) => TierIs(tier, "Building", "LEVEL 3")
             /\ (400 <= score /\ score <= 499) => TierIs(tier, "Fair", "LEVEL 2")
             /\ score < 400 => TierIs(tier, "Starting", "LEVEL 1"))
    /\ [][workload'[1] > workload[1]
            => LevelNumber(last'.status) >= LevelNumber(last.status)]_vars

\* get_score_tier has classified the score 750, the lowest Excellent one
C10_Witness ==
    /\ workload = Some(750)
    /\ TierIs(last.status, "Excellent", "LEVEL 5")

DateLeq(a, b) == a.day < b.day \/ (a.day = b.day /\ a.time <= b.time)

Listed == last.op = "transactions_page" /\ last.status = "listed"

\* C11: the listing sorted "Date (Newest)" is in non-increasing order of the
\* transactions' dates and the listing sorted "Date (Oldest)" is in
\* non-decreasing order of them, whatever the dates entered in the form.
C11_DateSortsFollowDates ==
    Listed =>
        LET result == last.result
            sort_by == last.query[3]
        IN \A i \in 1..Len(result) - 1 :
               /\ sort_by = "Date (Newest)"
                      => DateLeq(result[i + 1].date, result[i].date)
               /\ sort_by = "Date (Oldest)"
                      => DateLeq(result[i].date, result[i + 1].date)

ReadStep ==
    /\ last'.op \in {"transactions_page", "dashboard_page"}
    /\ last' # last

\* C12: a run of the transactions page (any filter, any sort) or of the
\* dashboard leaves every stored ledger, its order included, and every
\* cached score unchanged; and two runs of the same page with the same
\* filters and sort, one after the other, show the same result.
C12_ReadsChangeNothing ==
    [][ReadStep =>
          /\ transactions_db' = transactions_db
          /\ users_db' = users_db
          /\ (last.op = last'.op /\ last.query = last'.query)
                 => last'.result = last.result]_vars

\* the page has listed, sorted by amount, a ledger of two transactions that
\* is stored in another order than the one listed
C12_Witness ==
    /\ Listed
    /\ last.query = <<"All", "All", "Amount (High-Low)">>
    /\ Len(Ledger(PageUser)) = 2
    /\ last.result # Ledger(PageUser)

\* the step is a run of the form that saved a transaction
SavedByForm ==
    /\ last'.op = "add_transaction"
    /\ last'.status \in {"saved_manual", "saved_extracted"}

\* C13: a successful append puts the new transaction at index 0 of the
\* user's ledger and keeps every earlier transaction, unchanged and in the
\* same order, after it: the ledger grows by exactly one, and no step
\* removes or alters a stored transaction.
C13_AppendAtFront ==
    [][LET email == current_user[1]
           old == Ledger(email)
           new == transactions_db'[email]
       IN /\ SavedByForm =>
                 /\ Len(new) = Len(old) + 1
                 /\ Tail(new) = old
                 /\ Head(new).amount =
                        (IF last'.status = "saved_manual" THEN 100 ELSE 4550)
                 /\ Head(new).verified \/ last'.status = "saved_manual"
          /\ ~SavedByForm => new = old]_vars

\* the form has saved a second transaction, different from the first, and
\* the ledger lists it before the first
C13_Witness ==
    /\ last = [op |-> "add_transaction", status |-> "saved_manual"]
    /\ Len(Ledger(PageUser)) = 2
    /\ Ledger(PageUser)[1].amount = 100
    /\ Ledger(PageUser)[2].amount = 4550

\* C14: a save_transaction for one user leaves the ledger and the profile
\* (cached score included) of every other user unchanged, at each step of
\* the call and however the calls of different users interleave.
C14_AppendTouchesOnlyItsUser ==
    [][\A t \in Threads :
           pc'[t] # pc[t] =>
               \A email \in Emails \ {local'[t][1].email} :
                   /\ transactions_db'[email] = transactions_db[email]
                   /\ users_db'[email] = users_db[email]]_vars

\* two calls for different users have both finished, interleaved or not
C14_Witness ==
    /\ \A t \in Threads : pc[t] = "done"
    /\ local[1][1].email # local[2][1].email
    /\ \A email \in Emails :
           /\ Len(Ledger(email)) = 1
           /\ CachedScore(email) = ScoreOfLedger(Ledger(email))

\* C15: every transaction that the transaction form has stored has an
\* amount greater than 0, whether the amount was typed or extracted from a
\* receipt.
C15_FormAmountsPositive ==
    \A email \in DOMAIN transactions_db :
        \A k \in 1..Len(Ledger(email)) : Ledger(email)[k].amount > 0

\* the form has stored a typed amount and then an extracted one
C15_Witness ==
    /\ last = [op |-> "add_transaction", status |-> "saved_extracted"]
    /\ \E email \in DOMAIN transactions_db :
           /\ Len(Ledger(email)) = 2
           /\ Ledger(email)[1].amount = 4550
           /\ Ledger(email)[2].amount = 100

\* C16: in every ledger a transaction is verified exactly when it was saved
\* with a receipt; a verified transaction carries the text read from the
\* receipt (a text, never None) and an unverified one carries None.
C16_VerifiedIffReceiptText ==
    /\ [](\A email \in DOMAIN transactions_db :
              \A k \in 1..Len(Ledger(email)) :
                  LET t == Ledger(email)[k]
                  IN /\ t.verified <=> t.extracted_text # None
                     /\ t.verified => t.extracted_text = Some(SampleText0))
    /\ [][(SavedByForm /\ last'.status = "saved_extracted")
              => Head(transactions_db'[current_user[1]]).verified]_vars

\* one ledger holds a transaction saved without a receipt and, before it,
\* one saved with a receipt
C16_Witness ==
    \E email \in DOMAIN transactions_db :
        /\ Len(Ledger(email)) = 2
        /\ Ledger(email)[1].verified
        /\ Ledger(email)[1].extracted_text = Some(SampleText0)
        /\ ~Ledger(email)[2].verified
        /\ Ledger(email)[2].extracted_text = None

\* the amount a literal denotes, in hundredths, its commas dropped
LiteralValue(literal) ==
    100 * DigitsValue(literal.lead \o JoinGroups(literal.groups, <<>>))
        + (IF literal.frac = None THEN 0
           ELSE DigitsValue(SubSeq(literal.frac[1] \o <<"0">>, 1, 2)))

Extracted == last.op = "extract_amount_from_text"

\* C17: for every amount A of the numeric-literal grammar (one or more
\* digits, optional groups of thousands after commas, optional fraction
\* after a dot), extract_amount_from_text("TOTAL: $A") returns A.
C17_TotalRoundTrip ==
    (Extracted /\ workload[1].symbol = <<"$">>)
        => last.status = Some(LiteralValue(workload[1].literal))

\* C18: for every upper/lower-case spelling of TOTAL or AMOUNT followed by
\* ": " and a number, without currency symbol or code,
\* extract_amount_from_text returns that number.
C18_LabelAnyCase ==
    (Extracted /\ workload[1].symbol = <<>>)
        => /\ last.status # None
           /\ last.status = Some(LiteralValue(workload[1].literal))

\* the ledger with its transactions in the order the permutation gives
Reordered(transactions, perm) ==
    [k \in 1..Len(transactions) |-> transactions[perm[k]]]

\* C19: calculate_trust_score gives the same score for every ordering of a
\* ledger's transactions; the cached score after appending tx1 then tx2 is
\* the score of the ledger that has them in the other order.
C19_ScoreIgnoresOrder ==
    \A email \in DOMAIN transactions_db :
        \A perm \in Permutations(1..Len(Ledger(email))) :
            LET reordered == Reordered(Ledger(email), perm)
            IN /\ calculate_trust_score(Put(transactions_db, email, reordered),
                                        email)
                      = calculate_trust_score(transactions_db, email)
               /\ email \in DOMAIN users_db
                      => CachedScore(email) = ScoreOfLedger(reordered)

\* a ledger of two transactions that differ in type, date and verification
C19_Witness ==
    /\ last = [op |-> "save_transaction", status |-> "ok"]
    /\ \E email \in DOMAIN users_db :
           /\ Len(Ledger(email)) = 2
           /\ Ledger(email)[1].verified /\ ~Ledger(email)[2].verified
           /\ Ledger(email)[1].type = "Expense"
           /\ Ledger(email)[2].type = "Income"
           /\ Ledger(email)[1].date.day # Ledger(email)[2].date.day

\* C20: the cached score and the ledger of an existing user change only in
\* a run of the transaction form that saves a transaction for that user:
\* sign in, sign out, sign up of another email, navigation, the profile's
\* name change, the password form and the report generation leave every
\* existing user's trust_score and ledger as they were.
C20_OnlyAppendChangesScoreAndLedger ==
    [][\A email \in DOMAIN users_db :
           LET kept == /\ users_db'[email].trust_score = CachedScore(email)
                       /\ transactions_db'[email] = Ledger(email)
           IN /\ ~kept => (SavedByForm /\ current_user = Some(email))
              /\ last'.op \in {"sign_in", "sign_out", "sign_up", "navigate",
                               "save_profile", "update_password",
                               "generate_report"} => kept]_vars

\* the profile's name was changed for a user who has two transactions and a
\* score above the base, while another account exists
C20_Witness ==
    /\ last = [op |-> "save_profile", status |-> "ok"]
    /\ Cardinality(DOMAIN users_db) = 2
    /\ Len(Ledger(current_user[1])) = 2
    /\ CachedScore(current_user[1]) > BaseScore

\* C21: a run of the form that saves a transaction raises the user's trust
\* score by the points its message announces: by 5 when a receipt was
\* uploaded (the saved transaction is verified) and by 2 when none was.
C21_ScoreRisesByAnnouncedPoints ==
    [][SavedByForm =>
           LET email == current_user[1]
               uploaded == Head(transactions_db'[email]).verified
           IN users_db'[email].trust_score - CachedScore(email)
                  = points_announced(uploaded)]_vars

\* C22: a run of the sign-up form leaves the record, the ledger and the
\* cached score of every registered email as they were (for that email the
\* form answers "Email already registered"); so no step empties or shortens
\* the ledger of an existing user, and a user whose ledger holds a
\* transaction never has the score 300 of a new account.
C22_SignUpKeepsExistingUsers ==
    /\ [][\A email \in DOMAIN users_db :
              /\ last'.op = "sign_up" =>
                     /\ users_db'[email] = users_db[email]
                     /\ transactions_db'[email] = Ledger(email)
              /\ Len(transactions_db'[email]) >= Len(Ledger(email))]_vars
    /\ [](\A email \in DOMAIN users_db :
              Ledger(email) # <<>> => CachedScore(email) > BaseScore)

\* the form has refused a sign-up for the one registered email, whose
\* ledger holds two transactions
C22_Witness ==
    /\ last = [op |-> "sign_up", status |-> "already_registered"]
    /\ \E email \in Emails :
           /\ DOMAIN users_db = {email}
           /\ Len(Ledger(email)) = 2
           /\ CachedScore(email) > BaseScore

\* C23: in every state of the session machine, authenticated implies that
\* current_user is an email with an entry in users_db and in
\* transactions_db, and not authenticated (at the start and after sign out)
\* implies that current_user is None; so the form's save_transaction always
\* finds the profile it updates.
C23_SessionUserIsRegistered ==
    /\ authenticated =>
           /\ current_user # None
           /\ current_user[1] \in DOMAIN users_db
           /\ current_user[1] \in DOMAIN transactions_db
    /\ ~authenticated => current_user = None

\* a signed-in user has saved two transactions through the form while a
\* second account exists
C23_Witness ==
    /\ authenticated
    /\ last.op = "add_transaction"
    /\ last.status \in {"saved_manual", "saved_extracted"}
    /\ Len(Ledger(current_user[1])) = 2
    /\ Cardinality(DOMAIN users_db) = 2

====
